---- MODULE Spec2Model ----
(***************************************************************************)
(* Data harmonisation, train/test split, coordinate building and forecast  *)
(* frame generation of PresidentialElectionsModel                          *)
(* (src/presidential-elections/utils/model.py).                            *)
(*                                                                         *)
(* Dates are day numbers of a scaled-down calendar: a quarter has          *)
(* QuarterLen days and a year has two quarters.  Election k is held on the *)
(* first day of the second quarter of year k.  A missing value (NaN) is    *)
(* the empty tuple, a present value v the one-element tuple <<v>>.         *)
(***************************************************************************)
EXTENDS Integers, Sequences, FiniteSets, TLC

VARIABLES
    pc,                    \* "new" before __init__, "ready" after it, "failed" when it raised
    raw_polls,             \* the rows the two loaders return (old polls and results, 2022 polls)
    raw_json,              \* official-result table: year -> expressed votes
    election_date,         \* constructor argument election_date
    test_cutoff,           \* constructor argument test_cutoff in days (NaN = None)
    unemployment_data,     \* predictor table: quarter -> unemployment
    harmonized,            \* the frame of _format_polls once "other" is computed
    polls_train, polls_test, results_raw, results_mult, results_oos,
    unique_elections, unique_pollsters,
    continuous_predictors, \* the series the standardisation statistics are taken from
    coords,                \* self.coords
    pollster_id, countdown_id, election_id,
    built_on,              \* the table the last build_model ran on, and how it was given
    non_competing_parties, \* the indicator arrays of the last build_model
    idata,                 \* coordinates of the posterior returned by sample_all
    returned,              \* what the last call returned or raised
    first_coords,          \* coordinates of the first build_model() without override,
                           \* and the kinds of build that followed it
    premier_tour,          \* one poll of the 2022 file: its list of hypotheses
    selected,              \* what select_hypothesis returned for it
    house_election_effects_sd,   \* a draw of the scale, per (pollster, family)
    house_election_effects_raw,  \* a draw of the zero-sum tensor
    house_election_effects       \* the deterministic house_election_effects

vars == <<pc, raw_polls, raw_json, election_date, test_cutoff, unemployment_data,
          harmonized, polls_train, polls_test, results_raw, results_mult, results_oos,
          unique_elections, unique_pollsters, continuous_predictors,
          coords, pollster_id, countdown_id, election_id, built_on,
          non_competing_parties, idata,
          returned, first_coords, premier_tour, selected,
          house_election_effects_sd, house_election_effects_raw, house_election_effects>>

-----------------------------------------------------------------------------
(* Bounds of the model *)

QuarterLen == 2
NumElections == 3
MaxPolls == 2

-----------------------------------------------------------------------------
(* Values, calendar *)

NaN == <<>>
isna(x) == x = NaN
Num(v) == <<v>>
Val(x) == x[1]

YearLen == 2 * QuarterLen
Year(d) == d \div YearLen
YearStart(d) == Year(d) * YearLen
to_period_Q(d) == d \div QuarterLen

ElectionDateOf(k) == k * YearLen + QuarterLen
ElectionDates == {ElectionDateOf(k) : k \in 1..NumElections}
LastElectionDate == ElectionDateOf(NumElections)

Range(s) == {s[i] : i \in DOMAIN s}

RECURSIVE SumSeq(_)
SumSeq(s) == IF s = <<>> THEN 0 ELSE Head(s) + SumSeq(Tail(s))

RECURSIVE FlatSeq(_)
FlatSeq(ss) == IF ss = <<>> THEN <<>> ELSE Head(ss) \o FlatSeq(Tail(ss))

\* the sequence left in its order
Unreversed(s) == s

\* s[::-1]
Reverse(s) == [i \in 1..Len(s) |-> s[Len(s) + 1 - i]]

SetMax(S) == CHOOSE m \in S : \A x \in S : x <= m

\* Series.unique() / the uniques of Series.factorize(): order of first appearance
RECURSIVE unique(_)
unique(s) ==
    IF s = <<>> THEN <<>>
    ELSE LET u == unique(SubSeq(s, 1, Len(s) - 1))
         IN  IF s[Len(s)] \in Range(u) THEN u ELSE Append(u, s[Len(s)])

IndexOf(u, x) == CHOOSE i \in DOMAIN u : u[i] = x

Column(table, col) == [i \in DOMAIN table |-> table[i][col]]

\* Alphabetical order of the pollster names (and of the "result" sentinel)
SortedNames == <<"Harris", "Ifop", "result">>
NameRank(s) == IndexOf(SortedNames, s)

political_families ==
    <<"farleft", "left", "green", "center", "right", "farright", "souverainistes", "other">>
NamedFamilies == SubSeq(political_families, 1, Len(political_families) - 1)

\* the difference taken the other way round
dates_to_idx_reversed(date, reference_date) == date - reference_date

\* dates_to_idx: days from timelist to reference_date
dates_to_idx(date, reference_date) == reference_date - date

-----------------------------------------------------------------------------
(* _load_polls *)

\* lexicographic order of sort_values(["dateelection", "date", "sondage", "samplesize"]),
\* missing sample sizes last
KeyLess(a, b) ==
    LET sa == IF isna(a.samplesize) THEN 1000000 ELSE Val(a.samplesize)
        sb == IF isna(b.samplesize) THEN 1000000 ELSE Val(b.samplesize)
        ka == <<a.dateelection, a.date, NameRank(a.sondage), sa>>
        kb == <<b.dateelection, b.date, NameRank(b.sondage), sb>>
    IN  \E i \in 1..4 : ka[i] < kb[i] /\ \A j \in 1..(i - 1) : ka[j] = kb[j]

RECURSIVE sort_values(_)
sort_values(S) ==
    IF S = {} THEN <<>>
    ELSE LET m == CHOOSE r \in S : \A o \in S : ~KeyLess(o, r)
         IN  <<m>> \o sort_values(S \ {m})

AllMissing == [f \in Range(NamedFamilies) |-> NaN]

EmptyResultRow ==
    [dateelection |-> LastElectionDate, date |-> LastElectionDate, sondage |-> "result",
     samplesize |-> NaN, nb |-> AllMissing]

\* polls.loc["2022-04-10"] = NaN and the two assignments after it: every row dated
\* on the last election's day is blanked into a result row; when there is none,
\* one row is appended
AddEmptyResultRow(polls) ==
    IF \E i \in DOMAIN polls : polls[i].date = LastElectionDate
    THEN [i \in DOMAIN polls |->
            IF polls[i].date = LastElectionDate THEN EmptyResultRow ELSE polls[i]]
    ELSE Append(polls, EmptyResultRow)

load_polls(rows) ==
    LET sorted == sort_values(rows)
        filled == [i \in DOMAIN sorted |->
                     [sorted[i] EXCEPT !.nb["souverainistes"] =
                         IF isna(@) THEN Num(0) ELSE @]]
    IN  AddEmptyResultRow(filled)

-----------------------------------------------------------------------------
(* cast_as_multinomial *)

\* the quotient cut to an integer without rounding
truncate(num, den) == num \div den

\* numpy round of num/den (den > 0): to the nearest integer, ties to the even one
round(num, den) ==
    LET q == num \div den
        r == num % den
    IN  IF 2 * r < den THEN q
        ELSE IF 2 * r > den THEN q + 1
        ELSE IF q % 2 = 0 THEN q ELSE q + 1

\* (share / 100) * samplesize, rounded, NaN filled with 0, as int
CountOf(share, samplesize) ==
    IF isna(share) \/ isna(samplesize) THEN 0
    ELSE round(Val(share) * Val(samplesize), 100)

SumFamilies(fam) == SumSeq([i \in DOMAIN political_families |-> fam[political_families[i]]])

\* the declared sample size kept as trial count
TrialCountDeclared(counts, samplesize) == IF isna(samplesize) THEN 0 ELSE Val(samplesize)

\* the samplesize column after cast_as_multinomial: the sum of the eight counts
TrialCount(counts, samplesize) == SumFamilies(counts)

cast_as_multinomial(row) ==
    LET counts == [f \in Range(political_families) |-> CountOf(row.fam[f], row.samplesize)]
    IN  [row EXCEPT !.fam = counts, !.samplesize = TrialCount(counts, row.samplesize)]

-----------------------------------------------------------------------------
(* _format_polls *)

\* DataFrame.sum(1) skips missing values
SumSkipNa(opts) == SumSeq([i \in DOMAIN opts |-> IF isna(opts[i]) THEN 0 ELSE Val(opts[i])])

\* "other" completed over the families of the old file only, without the
\* souverainistes column
OtherShareOldFamilies(nb) ==
    100 - SumSkipNa([i \in 1..(Len(NamedFamilies) - 1) |-> nb[NamedFamilies[i]]])

\* polls["other"] = 100 - polls.sum(1), the frame holding the seven named families
OtherShare(nb) == 100 - SumSkipNa([i \in DOMAIN NamedFamilies |-> nb[NamedFamilies[i]]])

WithOther(nb) ==
    [f \in Range(political_families) |-> IF f = "other" THEN Num(OtherShare(nb)) ELSE nb[f]]

\* "start all elections on Jan 1st": the rows of one election kept by the loop
Retained(r, date) == r.dateelection = date /\ r.date >= YearStart(date)

Countdown(r) == dates_to_idx(r.date, r.dateelection)

Harmonize(r) ==
    [dateelection |-> r.dateelection, date |-> r.date, countdown |-> Countdown(r),
     sondage |-> r.sondage, samplesize |-> r.samplesize, fam |-> WithOther(r.nb)]

\* the concatenation of the per-election frames, with countdown and "other"
HarmonizedRows(polls) ==
    LET elections == unique(Column(polls, "dateelection"))
        OfElection(date) ==
            LET Keep(r) == Retained(r, date)
                kept == SelectSeq(polls, Keep)
            IN  [i \in DOMAIN kept |-> Harmonize(kept[i])]
    IN  FlatSeq([k \in DOMAIN elections |-> OfElection(elections[k])])

\* np.testing.assert_allclose(polls.sum(1).values, 100)
SharesSumTo100(rows) ==
    \A i \in DOMAIN rows :
        SumSkipNa([k \in DOMAIN political_families |-> rows[i].fam[political_families[k]]]) = 100

IsResult(r) == r.sondage = "result"
IsPoll(r) == r.sondage # "result"

\* results_as_multinomial: expressed votes joined on dateelection, a year absent
\* from the official table skipped (KeyError); pd.concat of no frame raises
JsonElections(res_raw, json) ==
    LET dates == unique(Column(res_raw, "dateelection"))
        Known(d) == Year(d) \in DOMAIN json
    IN  SelectSeq(dates, Known)

\* a join keeping only the result rows whose election has expressed votes
JoinExprimesInner(res_raw, json) ==
    LET known == Range(JsonElections(res_raw, json))
        Known(r) == r.dateelection \in known
        kept == SelectSeq(res_raw, Known)
    IN  [i \in DOMAIN kept |->
            [kept[i] EXCEPT !.samplesize = Num(json[Year(kept[i].dateelection)] \div 100)]]

\* results_raw.join(jsons.set_index("dateelection"), on="dateelection"), the
\* expressed votes renamed samplesize and divided by 100: a left join, every
\* result row kept, without sample size when its election has no expressed votes
JoinExprimes(res_raw, json) ==
    LET known == Range(JsonElections(res_raw, json))
    IN  [i \in DOMAIN res_raw |->
            [res_raw[i] EXCEPT !.samplesize =
                IF res_raw[i].dateelection \in known
                THEN Num(json[Year(res_raw[i].dateelection)] \div 100) ELSE NaN]]

results_as_multinomial(res_raw, json) ==
    LET joined == JoinExprimes(res_raw, json)
    IN  [i \in DOMAIN joined |-> cast_as_multinomial(joined[i])]

format_polls(polls, json) ==
    LET rows == HarmonizedRows(polls)
        res  == SelectSeq(rows, IsResult)
        pls  == SelectSeq(rows, IsPoll)
    IN  IF ~SharesSumTo100(rows) \/ JsonElections(res, json) = <<>>
        THEN [ok |-> FALSE]
        ELSE [ok |-> TRUE,
              harmonized |-> rows,
              results_raw |-> res,
              results_mult |-> results_as_multinomial(res, json),
              polls |-> [i \in DOMAIN pls |-> cast_as_multinomial(pls[i])]]

-----------------------------------------------------------------------------
(* _train_split *)

\* pd.Timedelta(2, "D")
DefaultCutoffDays == 2

\* "if test_cutoff:" : None and a zero duration are both falsy
Truthy(cutoff) == ~isna(cutoff) /\ Val(cutoff) # 0

CutoffDate(last_election, cutoff) ==
    IF Truthy(cutoff) THEN last_election - Val(cutoff)
    ELSE last_election - DefaultCutoffDays

train_split(polls, cutoff) ==
    LET dates == unique(Column(polls, "dateelection"))
        last_election == dates[Len(dates)]
        cutoff_ == CutoffDate(last_election, cutoff)
        Old(r) == r.dateelection # last_election
        Early(r) == r.dateelection = last_election /\ r.date <= cutoff_
        Late(r) == r.dateelection = last_election /\ r.date > cutoff_
    IN  [train |-> SelectSeq(polls, Old) \o SelectSeq(polls, Early),
         test  |-> SelectSeq(polls, Late)]

-----------------------------------------------------------------------------
(* _load_predictors, _merge_with_data, _standardize_continuous_predictors *)

Lookup(predictor, quarter) ==
    IF quarter \in DOMAIN predictor THEN Num(predictor[quarter]) ELSE NaN

\* data.index = data["date"].dt.to_period(freq); data.join(predictor)
merge_with_data(data, predictor) ==
    [i \in DOMAIN data |->
        [f \in DOMAIN data[i] \cup {"unemployment"} |->
            IF f = "unemployment" THEN Lookup(predictor, to_period_Q(data[i].date))
            ELSE data[i][f]]]

RECURSIVE SortByDate(_)
SortByDate(s) ==
    IF s = <<>> THEN <<>>
    ELSE LET i == CHOOSE k \in DOMAIN s :
                     /\ \A j \in DOMAIN s : s[k].date <= s[j].date
                     /\ \A j \in 1..(k - 1) : s[j].date # s[k].date
             rest == [j \in 1..(Len(s) - 1) |-> IF j < i THEN s[j] ELSE s[j + 1]]
         IN  <<s[i]>> \o SortByDate(rest)

\* the frame self.continuous_predictors: date and unemployment of the training
\* polls and of the results, ordered by date
ContinuousPredictors(train, results) ==
    LET Cols(t) == [i \in DOMAIN t |-> [date |-> t[i].date, unemployment |-> t[i].unemployment]]
    IN  SortByDate(Cols(train) \o Cols(results))

\* mean() and std() of a series skip missing values: both are functions of the
\* count, the sum and the sum of squares of the present values
Statistics(series) ==
    LET present == SelectSeq(Column(series, "unemployment"), LAMBDA x : ~isna(x))
    IN  [count |-> Len(present),
         sum   |-> SumSeq([i \in DOMAIN present |-> Val(present[i])]),
         sumsq |-> SumSeq([i \in DOMAIN present |-> Val(present[i]) * Val(present[i])])]

\* (x - mean) / std, kept exact: count * (x - mean) together with the statistics
Standardized(x, stats) ==
    IF isna(x) THEN NaN
    ELSE Num([deviation |-> stats.count * Val(x) - stats.sum, stats |-> stats])

-----------------------------------------------------------------------------
(* __init__ *)

Unbuilt == [built |-> FALSE]
NoIds == <<>>
NoTable == [given |-> "none", table |-> <<>>]
NoData == [sampled |-> FALSE]
NoDraw == [drawn |-> FALSE]
NoContainers == [polls_multiplicative |-> <<>>, polls_additive |-> <<>>, results |-> <<>>]
Nothing == [call |-> "none"]

\* the value of every attribute once __init__ has run, or ok = FALSE when it raises
Constructed(rows, json, e_date, cutoff, predictor) ==
    LET polls == load_polls(rows)
        f == format_polls(polls, json)
    IN  IF ~f.ok THEN [ok |-> FALSE]
        ELSE IF f.polls = <<>> THEN [ok |-> FALSE]   \* unique()[-1] of no election
        ELSE
        LET split == train_split(f.polls, cutoff)
            NotForecast(r) == r.dateelection # e_date
            train == merge_with_data(split.train, predictor)
            res   == merge_with_data(f.results_mult, predictor)
        IN  [ok |-> TRUE,
             harmonized |-> f.harmonized,
             polls_train |-> train,
             polls_test |-> merge_with_data(split.test, predictor),
             results_raw |-> f.results_raw,
             results_mult |-> res,
             results_oos |-> SelectSeq(f.results_mult, NotForecast),
             unique_elections |-> unique(Column(split.train, "dateelection")),
             unique_pollsters |-> unique(Column(split.train, "sondage")),
             continuous_predictors |-> ContinuousPredictors(train, res)]

Construct ==
    /\ pc = "new"
    /\ LET o == Constructed(raw_polls, raw_json, election_date, test_cutoff, unemployment_data)
       IN  IF o.ok
           THEN /\ pc' = "ready"
                /\ harmonized' = o.harmonized
                /\ polls_train' = o.polls_train
                /\ polls_test' = o.polls_test
                /\ results_raw' = o.results_raw
                /\ results_mult' = o.results_mult
                /\ results_oos' = o.results_oos
                /\ unique_elections' = o.unique_elections
                /\ unique_pollsters' = o.unique_pollsters
                /\ continuous_predictors' = o.continuous_predictors
                /\ returned' = [call |-> "__init__", raised |-> FALSE]
           ELSE /\ pc' = "failed"
                /\ returned' = [call |-> "__init__", raised |-> TRUE]
                /\ UNCHANGED <<harmonized, polls_train, polls_test, results_raw, results_mult,
                               results_oos, unique_elections, unique_pollsters,
                               continuous_predictors>>
    /\ UNCHANGED <<raw_polls, raw_json, election_date, test_cutoff, unemployment_data,
                   coords, pollster_id, countdown_id, election_id, built_on,
                   non_competing_parties, idata, first_coords, premier_tour, selected,
                   house_election_effects_sd, house_election_effects_raw,
                   house_election_effects>>

-----------------------------------------------------------------------------
(* _build_coords, build_model, sample_all *)

\* the uniques of factorize(sort=True)
SortedUnique(s) ==
    LET names == Range(s)
        Present(n) == n \in names
    IN  SelectSeq(SortedNames, Present)

\* the table of the previous build kept when no override is given
CoordsDataSticky(polls, train) ==
    IF polls.given # "none" THEN polls.table
    ELSE IF built_on.given = "none" THEN train ELSE built_on.table

\* the table _build_coords reads: the override when one is given
CoordsData(polls, train) == IF polls.given = "none" THEN train ELSE polls.table

\* the range stopping one short of the largest countdown
CountdownRangeExclusive(data) ==
    [i \in 1..SetMax(Range(Column(data, "countdown"))) |-> i - 1]

\* np.arange(data["countdown"].max() + 1)
CountdownRange(data) == [i \in 1..(SetMax(Range(Column(data, "countdown"))) + 1) |-> i - 1]

build_coords(data) ==
    LET pollsters == SortedUnique(Column(data, "sondage"))
        elections == unique(Column(data, "dateelection"))
    IN  [pollster_id |-> [i \in DOMAIN data |-> IndexOf(pollsters, data[i].sondage) - 1],
         countdown_id |-> Column(data, "countdown"),
         election_id |-> [i \in DOMAIN data |-> IndexOf(elections, data[i].dateelection) - 1],
         COORDS |-> [built |-> TRUE,
                     observations |-> Len(data),
                     parties_complete |-> political_families,
                     pollsters |-> pollsters,
                     countdown |-> CountdownRange(data),
                     elections |-> elections,
                     elections_observed |-> SubSeq(elections, 1, Len(elections) - 1)]]

\* polls[self.political_families].astype(bool).astype(int): 1 where the count of
\* the row is not 0
is_here(table) ==
    [i \in DOMAIN table |->
        [f \in Range(political_families) |-> IF table[i].fam[f] # 0 THEN 1 ELSE 0]]

\* .replace(to_replace=0, value=-10).replace(to_replace=1, value=0)
Penalty(indicator) ==
    [i \in DOMAIN indicator |->
        [f \in Range(political_families) |-> IF indicator[i][f] = 0 THEN -10 ELSE 0]]

\* the dictionary non_competing_parties of _build_data_containers
build_data_containers(polls) ==
    [polls_multiplicative |-> is_here(polls),
     polls_additive |-> Penalty(is_here(polls)),
     results |-> Penalty(is_here(results_mult))]

\* np.arange(data["countdown"].max() + 1) raises on a table without rows
CanBuild(polls) == CoordsData(polls, polls_train) # <<>>

\* the assignments of build_model (the model graph itself is built from them)
BuildFrom(polls) ==
    LET data == CoordsData(polls, polls_train)
        c == build_coords(data)
    IN  /\ pollster_id' = c.pollster_id
        /\ countdown_id' = c.countdown_id
        /\ election_id' = c.election_id
        /\ coords' = c.COORDS
        /\ built_on' = [given |-> polls.given, table |-> data]
        /\ non_competing_parties' = build_data_containers(data)
        /\ first_coords' =
              IF ~first_coords.built
              THEN IF polls.given = "none"
                   THEN [built |-> TRUE, COORDS |-> c.COORDS, then |-> {}]
                   ELSE first_coords
              ELSE [first_coords EXCEPT !.then = @ \cup ({polls.given} \ {"none"})]

Effects == <<house_election_effects_sd, house_election_effects_raw, house_election_effects>>

Frozen == <<Effects, pc, raw_polls, raw_json, election_date, test_cutoff, unemployment_data,
            harmonized, polls_train, polls_test, results_raw, results_mult, results_oos,
            unique_elections, unique_pollsters, continuous_predictors,
            premier_tour, selected>>

\* build_model()
BuildModel ==
    /\ pc = "ready"
    /\ CanBuild(NoTable)
    /\ BuildFrom(NoTable)
    /\ returned' = [call |-> "build_model", raised |-> FALSE]
    /\ UNCHANGED <<Frozen, idata>>

\* build_model(polls=self.polls_test, continuous_predictors=self.polls_test)
BuildModelOverride ==
    /\ pc = "ready"
    /\ LET polls == [given |-> "override", table |-> polls_test]
       IN  /\ CanBuild(polls)
           /\ BuildFrom(polls)
    /\ returned' = [call |-> "build_model", raised |-> FALSE]
    /\ UNCHANGED <<Frozen, idata>>

\* sample_all(var_names=...): the model is built by build_model(); the posterior
\* carries the coordinates of that model
SampleAll ==
    /\ pc = "ready"
    /\ CanBuild(NoTable)
    /\ BuildFrom(NoTable)
    /\ idata' = [sampled |-> TRUE,
                 countdown |-> coords'.countdown,
                 elections |-> coords'.elections]
    /\ returned' = [call |-> "sample_all", raised |-> FALSE]
    /\ UNCHANGED Frozen

-----------------------------------------------------------------------------
(* forecast_election: _generate_oos_data, _join_with_continuous_predictors *)

\* np.tile(a, reps) and np.repeat(a, repeats)
tile(a, reps) == FlatSeq([k \in 1..reps |-> a])
repeat(a, repeats) == FlatSeq([k \in DOMAIN a |-> [j \in 1..repeats |-> a[k]]])

\* periods=max(countdown.data) + 1
Periods(countdown) == SetMax(Range(countdown)) + 1

\* the range started, not ended, on the election's date
date_range_from(periods, end) == [i \in 1..periods |-> end + i - 1]

\* pd.date_range(periods=periods, end=end, freq="D")
date_range(periods, end) == [i \in 1..periods |-> end - periods + i]

NewDates(data) ==
    FlatSeq([k \in DOMAIN data.elections |->
                date_range(Periods(data.countdown), data.elections[k])])

\* the frame of _generate_oos_data for one outcome of the two np.random.choice
\* calls; DataFrame.from_dict raises when its columns differ in length
generate_oos_data(data, sondage, samplesize) ==
    LET estimated_days == tile(Reverse(data.countdown), Len(data.elections))
        dateelection == repeat(unique_elections, Len(data.countdown))
        new_dates == NewDates(data)
    IN  IF Len(dateelection) # Len(estimated_days) \/ Len(new_dates) # Len(estimated_days)
        THEN [raised |-> TRUE]
        ELSE [raised |-> FALSE,
              new_dates |-> new_dates,
              oos_data |-> [i \in DOMAIN estimated_days |->
                              [date |-> new_dates[i],
                               countdown |-> estimated_days[i],
                               dateelection |-> dateelection[i],
                               sondage |-> sondage[i],
                               samplesize |-> samplesize[i]]]]

\* oos_data.join(self.unemployment_data, on="quarter")
Joined(oos_data, predictor) ==
    [i \in DOMAIN oos_data |->
        [f \in DOMAIN oos_data[i] \cup {"quarter", "unemployment"} |->
            IF f = "quarter" THEN to_period_Q(oos_data[i].date)
            ELSE IF f = "unemployment"
                 THEN Lookup(predictor, to_period_Q(oos_data[i].date))
            ELSE oos_data[i][f]]]

\* the check failing only when no row has a value
HasOnlyMissing(frame) == \A i \in DOMAIN frame : isna(frame[i].unemployment)

\* np.testing.assert_allclose(0, oos_data.isna().any().mean()) fails
HasMissing(frame) == \E i \in DOMAIN frame : isna(frame[i].unemployment)

\* the statistics taken anew from the frame being standardised
ForecastValues(joined, series) == joined

\* "stdz predictors based on observed values": mean and std are those of
\* self.continuous_predictors
ObservedValues(joined, series) == series

join_with_continuous_predictors(oos_data, predictor, series) ==
    LET joined == Joined(oos_data, predictor)
        stats == Statistics(ObservedValues(joined, series))
    IN  IF HasMissing(joined) THEN [raised |-> TRUE]
        ELSE [raised |-> FALSE,
              frame |-> [i \in DOMAIN joined |->
                           [joined[i] EXCEPT !.unemployment = Standardized(@, stats)]]]

\* forecast_data: the joined frame with a placeholder 0 for every family
ForecastData(frame) ==
    [i \in DOMAIN frame |->
        [f \in DOMAIN frame[i] \cup {"fam"} |->
            IF f = "fam" THEN [p \in Range(political_families) |-> 0] ELSE frame[i][f]]]

\* outcomes of np.random.choice(values, size=n) that are followed: one value drawn
\* throughout, or the values drawn in turn
Draws(values, n) ==
    {[i \in 1..n |-> values[k]] : k \in DOMAIN values}
    \cup {[i \in 1..n |-> values[(i % Len(values)) + 1]]}

ForecastElection ==
    /\ pc = "ready"
    /\ idata.sampled
    /\ LET n == Len(idata.countdown) * Len(idata.elections)
       IN  \E sondage \in Draws(unique_pollsters, n),
              samplesize \in Draws(Column(results_oos, "samplesize"), n) :
            LET g == generate_oos_data(idata, sondage, samplesize)
                j == IF g.raised THEN g
                     ELSE join_with_continuous_predictors(g.oos_data, unemployment_data,
                                                          continuous_predictors)
            IN  IF j.raised
                THEN /\ returned' = [call |-> "forecast_election", raised |-> TRUE]
                     /\ UNCHANGED <<coords, pollster_id, countdown_id, election_id,
                                    built_on, non_competing_parties, first_coords>>
                ELSE /\ BuildFrom([given |-> "forecast", table |-> ForecastData(j.frame)])
                     /\ returned' = [call |-> "forecast_election", raised |-> FALSE,
                                     new_dates |-> g.new_dates, frame |-> j.frame]
    /\ UNCHANGED <<Frozen, idata>>

-----------------------------------------------------------------------------
(* Inputs *)

Shares(s) == [f \in Range(NamedFamilies) |-> s[IndexOf(NamedFamilies, f)]]

Profile1 == Shares(<<Num(10), Num(25), Num(5), Num(25), Num(20), Num(10), NaN>>)
Profile2 == Shares(<<Num(20), Num(5), Num(0), Num(25), Num(20), Num(20), Num(5)>>)

PollRow(k, d, p, n, nb) ==
    [dateelection |-> ElectionDateOf(k), date |-> d, sondage |-> p, samplesize |-> n, nb |-> nb]

\* the official result of a past election, as a row dated on election day
ResultRow(k, nb) == PollRow(k, ElectionDateOf(k), "result", NaN, nb)

OldResults == {ResultRow(k, IF k % 2 = 0 THEN Profile2 ELSE Profile1) : k \in 1..(NumElections - 1)}

\* expressed votes of the elections already held
ExprimesOf(year) == 1000 * year + 50
JsonHeld == [y \in 1..(NumElections - 1) |-> ExprimesOf(y)]
JsonAll == [y \in 1..NumElections |-> ExprimesOf(y)]
\* the official table lacking the oldest election as well
JsonRecent == [y \in 2..(NumElections - 1) |-> ExprimesOf(y)]
JsonTables == {JsonHeld, JsonAll, JsonRecent}

\* predictor tables: period_range(start, periods): a run of consecutive quarters
FirstQuarter == to_period_Q(YearStart(ElectionDateOf(1))) - 1
LastQuarter == to_period_Q(LastElectionDate)
PredictorTable(from, to) == [q \in from..to |-> 7 + (q % 3)]
PredictorFull == PredictorTable(FirstQuarter, LastQuarter)

RECURSIVE SetsUpTo(_, _)
SetsUpTo(S, k) ==
    IF k = 0 THEN {{}}
    ELSE {a \cup b : a \in SetsUpTo(S, k - 1), b \in {{}} \cup {{x} : x \in S}}

InitObject ==
    /\ pc = "new"
    /\ harmonized = <<>>
    /\ polls_train = <<>>
    /\ polls_test = <<>>
    /\ results_raw = <<>>
    /\ results_mult = <<>>
    /\ results_oos = <<>>
    /\ unique_elections = <<>>
    /\ unique_pollsters = <<>>
    /\ continuous_predictors = <<>>
    /\ coords = Unbuilt
    /\ pollster_id = NoIds
    /\ countdown_id = NoIds
    /\ election_id = NoIds
    /\ built_on = NoTable
    /\ non_competing_parties = NoContainers
    /\ idata = NoData
    /\ returned = Nothing
    /\ first_coords = Unbuilt
    /\ selected = Nothing
    /\ house_election_effects = NoDraw

\* Every election already held has a poll on the first day of its year.  Polls
\* are fielded before the vote: no poll is dated after its election's day.
BasePolls ==
    {PollRow(k, YearStart(ElectionDateOf(k)), "Ifop", Num(10), Profile1) :
        k \in 1..(NumElections - 1)}

\* further polls: one by another pollster on the eve of a past election, and
\* polls of the last campaign
LifecycleSlots ==
    {PollRow(k, ElectionDateOf(k) - 1, "Harris", Num(10), Profile1) : k \in 1..(NumElections - 1)}
    \cup {PollRow(NumElections, LastElectionDate - c, p, Num(10), Profile1) :
              c \in {1, QuarterLen}, p \in {"Ifop", "Harris"}}

Init ==
    /\ InitObject
    /\ house_election_effects_sd = NoDraw
    /\ house_election_effects_raw = NoDraw
    /\ premier_tour = <<>>
    /\ \E S \in SetsUpTo(LifecycleSlots, MaxPolls) : raw_polls = OldResults \cup BasePolls \cup S
    /\ raw_json = JsonHeld
    /\ election_date = LastElectionDate
    /\ test_cutoff \in {NaN, Num(QuarterLen + 1)}
    /\ unemployment_data \in {PredictorFull,
                              PredictorTable(FirstQuarter + 2, LastQuarter),
                              PredictorTable(FirstQuarter, LastQuarter - 1)}

Next == Construct \/ BuildModel \/ BuildModelOverride \/ SampleAll \/ ForecastElection

Spec == Init /\ [][Next]_vars

-----------------------------------------------------------------------------
(* Construction and first build over a wider range of poll dates, cut-offs and *)
(* forecast elections                                                          *)

\* further polls of the last two elections, dated from the last day of the
\* previous year to election day
BuildSlots ==
    {PollRow(k, ElectionDateOf(k) - c, "Ifop", Num(10), Profile1) :
        k \in (NumElections - 1)..NumElections, c \in 0..(QuarterLen + 1)}

Cutoffs == {NaN} \cup {Num(c) : c \in 0..(QuarterLen + 1)}

InitSplit ==
    /\ InitObject
    /\ house_election_effects_sd = NoDraw
    /\ house_election_effects_raw = NoDraw
    /\ premier_tour = <<>>
    /\ \E S \in SetsUpTo(BuildSlots, MaxPolls) :
          raw_polls = OldResults \cup BasePolls \cup S
    /\ raw_json \in JsonTables
    /\ election_date \in ElectionDates
    /\ test_cutoff \in Cutoffs
    /\ unemployment_data = PredictorFull

NextBuild == Construct \/ BuildModel

SpecSplit == InitSplit /\ [][NextBuild]_vars

-----------------------------------------------------------------------------
(* Construction over a wider range of shares and sample sizes *)

ShareValues == {NaN, Num(25), Num(50)}
SampleSizes == {NaN, Num(1), Num(2), Num(3)}
ShareVectors == [Range(NamedFamilies) -> ShareValues]

InitShares ==
    /\ InitObject
    /\ house_election_effects_sd = NoDraw
    /\ house_election_effects_raw = NoDraw
    /\ premier_tour = <<>>
    /\ \E nb \in ShareVectors :
          \/ \E n \in SampleSizes :
                raw_polls = OldResults \cup BasePolls
                            \cup {PollRow(NumElections, LastElectionDate - 1, "Harris", n, nb)}
          \/ raw_polls = (OldResults \ {ResultRow(1, Profile1)}) \cup BasePolls
                         \cup {ResultRow(1, nb)}
    /\ raw_json = JsonHeld
    /\ election_date = LastElectionDate
    /\ test_cutoff = NaN
    /\ unemployment_data = PredictorFull

SpecShares == InitShares /\ [][NextBuild]_vars

-----------------------------------------------------------------------------
(* Construction on polls whose shares are all present and sum to 100, over a *)
(* range of sample sizes                                                     *)

MaxSample == 50

\* the share that the first k named families have each, the others having 0
ShareUnits == {1, 5, 10, 13}
EvenShares(k, a) ==
    [f \in Range(NamedFamilies) |-> IF IndexOf(NamedFamilies, f) <= k THEN Num(a) ELSE Num(0)]
CompleteShares == {EvenShares(k, a) : k \in 0..Len(NamedFamilies), a \in ShareUnits}

InitCast ==
    /\ InitObject
    /\ house_election_effects_sd = NoDraw
    /\ house_election_effects_raw = NoDraw
    /\ premier_tour = <<>>
    /\ \E nb \in CompleteShares, n \in 0..MaxSample :
          raw_polls = OldResults \cup BasePolls
                      \cup {PollRow(NumElections, LastElectionDate - 1, "Harris", Num(n), nb)}
    /\ raw_json = JsonHeld
    /\ election_date = LastElectionDate
    /\ test_cutoff = NaN
    /\ unemployment_data = PredictorFull

SpecCast == InitCast /\ [][NextBuild]_vars

-----------------------------------------------------------------------------
(* select_hypothesis, on one poll of the 2022 file *)

MaxHypotheses == 3

ReferenceCandidate == "Christiane Taubira"
Candidates == {ReferenceCandidate, "Anne Hidalgo", "Yannick Jadot"}

\* pd.json_normalize(hypothesis): one row, the nested intentions flattened into
\* columns named intentions.<candidate>
json_normalize(hypothesis) ==
    [col \in {<<"hypothese">>} \cup {<<"intentions", c>> : c \in DOMAIN hypothesis.intentions} |->
        IF col = <<"hypothese">> THEN hypothesis.hypothese
        ELSE hypothesis.intentions[col[2]]]

HasReference(hypothesis) == ReferenceCandidate \in DOMAIN hypothesis.intentions

\* the first hypothesis of the poll
FirstOf(poll) == poll[1]

\* the hypothesis the trailing return reads: the loop variable after the loop
AfterLoop(poll) == poll[Len(poll)]

select_hypothesis(poll) ==
    IF \E i \in DOMAIN poll : HasReference(poll[i])
    THEN LET i == CHOOSE k \in DOMAIN poll :
                      HasReference(poll[k]) /\ \A j \in 1..(k - 1) : ~HasReference(poll[j])
         IN  [raised |-> FALSE, frame |-> json_normalize(poll[i])]
    ELSE IF poll = <<>> THEN [raised |-> TRUE]      \* the loop variable is unbound
    ELSE [raised |-> FALSE, frame |-> json_normalize(AfterLoop(poll))]

SelectHypothesis ==
    /\ selected.call = "none"
    /\ selected' = [call |-> "select_hypothesis"] @@ select_hypothesis(premier_tour)
    /\ UNCHANGED <<pc, raw_polls, raw_json, election_date, test_cutoff, unemployment_data,
                   harmonized, polls_train, polls_test, results_raw, results_mult,
                   results_oos, unique_elections, unique_pollsters, continuous_predictors,
                   coords, pollster_id, countdown_id, election_id, built_on,
                   non_competing_parties, idata, returned, first_coords, premier_tour,
                   house_election_effects_sd, house_election_effects_raw,
                   house_election_effects>>

Hypotheses(i) ==
    {[hypothese |-> i, intentions |-> [c \in cs |-> 5]] : cs \in (SUBSET Candidates) \ {{}}}

RECURSIVE PollsOfLength(_)
PollsOfLength(n) ==
    IF n = 0 THEN {<<>>}
    ELSE {Append(p, h) : p \in PollsOfLength(n - 1), h \in Hypotheses(n)}

InitHypothesis ==
    /\ InitObject
    /\ house_election_effects_sd = NoDraw
    /\ house_election_effects_raw = NoDraw
    /\ raw_polls = OldResults \cup BasePolls
    /\ raw_json = JsonHeld
    /\ election_date = LastElectionDate
    /\ test_cutoff = NaN
    /\ unemployment_data = PredictorFull
    /\ \E n \in 0..MaxHypotheses : premier_tour \in PollsOfLength(n)

SpecHypothesis == InitHypothesis /\ [][SelectHypothesis]_vars

-----------------------------------------------------------------------------
(* The election-specific house effect of build_model, on draws of its two *)
(* random variables                                                        *)

MaxScale == 2
MaxEffect == 1

\* the coordinates the tensors are drawn over: two pollsters, three families,
\* two elections
EffectPollsters == <<"Harris", "Ifop">>
EffectFamilies == SubSeq(political_families, 1, 3)
EffectElections == <<ElectionDateOf(1), LastElectionDate>>
EffectCells == Range(EffectPollsters) \X Range(EffectFamilies) \X Range(EffectElections)

Last(s) == s[Len(s)]
ButLast(s) == SubSeq(s, 1, Len(s) - 1)

\* ZeroSumNormal(dims=("pollsters", "parties_complete", "elections"),
\* zerosum_axes=(0, 1, 2)): the entry of cell <<p, f, e>> of the tensor that
\* sums to zero along each of the three axes and has the unconstrained values
\* free, one fewer than the length along each axis
RECURSIVE ZeroSumEntry(_, _, _, _)
ZeroSumEntry(free, p, f, e) ==
    IF p = Last(EffectPollsters)
    THEN 0 - SumSeq([i \in DOMAIN ButLast(EffectPollsters) |->
                        ZeroSumEntry(free, EffectPollsters[i], f, e)])
    ELSE IF f = Last(EffectFamilies)
    THEN 0 - SumSeq([i \in DOMAIN ButLast(EffectFamilies) |->
                        ZeroSumEntry(free, p, EffectFamilies[i], e)])
    ELSE IF e = Last(EffectElections)
    THEN 0 - SumSeq([i \in DOMAIN ButLast(EffectElections) |->
                        ZeroSumEntry(free, p, f, EffectElections[i])])
    ELSE free[<<p, f, e>>]

FreeCells ==
    Range(ButLast(EffectPollsters)) \X Range(ButLast(EffectFamilies))
        \X Range(ButLast(EffectElections))

ZeroSumNormal ==
    {[c \in EffectCells |-> ZeroSumEntry(free, c[1], c[2], c[3])] :
        free \in [FreeCells -> (0 - MaxEffect)..MaxEffect]}

\* pm.HalfNormal(dims=("pollsters", "parties_complete")): positive scales
HalfNormal == [Range(EffectPollsters) \X Range(EffectFamilies) -> 1..MaxScale]

\* the scale added to the raw effect
ScaledBySum(sd, raw) == [c \in DOMAIN raw |-> sd[<<c[1], c[2]>>] + raw[c]]

\* house_election_effects_sd[..., None] * house_election_effects_raw
ScaledBy(sd, raw) == [c \in DOMAIN raw |-> sd[<<c[1], c[2]>>] * raw[c]]

HouseElectionEffects ==
    /\ house_election_effects_sd.drawn
    /\ ~house_election_effects.drawn
    /\ house_election_effects' =
          [drawn |-> TRUE,
           value |-> ScaledBy(house_election_effects_sd.value,
                              house_election_effects_raw.value)]
    /\ UNCHANGED <<pc, raw_polls, raw_json, election_date, test_cutoff, unemployment_data,
                   harmonized, polls_train, polls_test, results_raw, results_mult,
                   results_oos, unique_elections, unique_pollsters, continuous_predictors,
                   coords, pollster_id, countdown_id, election_id, built_on,
                   non_competing_parties, idata, returned, first_coords, premier_tour,
                   selected, house_election_effects_sd, house_election_effects_raw>>

InitEffects ==
    /\ InitObject
    /\ premier_tour = <<>>
    /\ raw_polls = OldResults \cup BasePolls
    /\ raw_json = JsonHeld
    /\ election_date = LastElectionDate
    /\ test_cutoff = NaN
    /\ unemployment_data = PredictorFull
    /\ \E sd \in HalfNormal : house_election_effects_sd = [drawn |-> TRUE, value |-> sd]
    /\ \E raw \in ZeroSumNormal :
          house_election_effects_raw = [drawn |-> TRUE, value |-> raw]

SpecEffects == InitEffects /\ [][HouseElectionEffects]_vars

-----------------------------------------------------------------------------
(* Properties *)

Key(r) == <<r.dateelection, r.date, r.sondage>>
Keys(table) == [i \in DOMAIN table |-> Key(table[i])]
ZeroIfNa(x) == IF isna(x) THEN 0 ELSE Val(x)
IsSorted(s) == \A i, j \in DOMAIN s : i < j => s[i] < s[j]

\* C1: whatever build_model and forecast_election calls were made, the pollsters,
\* elections, countdown range and elections_observed the model is built over are
\* those derived from polls_train.
C1_CoordsFromTrainingOnly ==
    (coords.built /\ polls_train # <<>>) =>
        LET t == build_coords(polls_train).COORDS
        IN  /\ coords.pollsters = t.pollsters
            /\ coords.elections = t.elections
            /\ coords.countdown = t.countdown
            /\ coords.elections_observed = t.elections_observed

\* C2: harmonisation goes through, and in every harmonised row "other" is 100
\* minus the seven named shares (a missing share counting as 0), so that the
\* eight shares sum to 100.
C2_OtherCompletesTo100 ==
    /\ pc # "failed"
    /\ pc = "ready" =>
         \A i \in DOMAIN harmonized :
            LET fam == harmonized[i].fam
                named == SumSeq([k \in DOMAIN NamedFamilies |-> ZeroIfNa(fam[NamedFamilies[k]])])
            IN  /\ ~isna(fam["other"])
                /\ Val(fam["other"]) = 100 - named
                /\ named + Val(fam["other"]) = 100

C2_Witness ==
    /\ pc = "ready"
    /\ \E i \in DOMAIN harmonized :
          /\ IsPoll(harmonized[i])
          /\ isna(harmonized[i].fam["left"])
          /\ harmonized[i].fam["farleft"] = Num(25)
          /\ harmonized[i].fam["other"] = Num(25)

\* the rows cast_as_multinomial returned, and the rows they were cast from
EncodedPolls == polls_train \o polls_test
DeclaredPolls == SelectSeq(harmonized, IsPoll)

IntegerCounts(r) == \A f \in Range(political_families) : r.fam[f] \in Int
AllZero(r) == \A f \in Range(political_families) : r.fam[f] = 0
CountsSum(r) == r.fam["farleft"] + r.fam["left"] + r.fam["green"] + r.fam["center"]
                + r.fam["right"] + r.fam["farright"] + r.fam["souverainistes"] + r.fam["other"]

\* C3: in every row cast_as_multinomial returned, polls and results alike, the
\* eight counts are integers summing to the row's samplesize; a row without
\* sample size has all counts 0 and trial count 0.
C3_CountsSumToTrials ==
    pc = "ready" =>
        /\ \A i \in DOMAIN EncodedPolls :
              /\ IntegerCounts(EncodedPolls[i])
              /\ CountsSum(EncodedPolls[i]) = EncodedPolls[i].samplesize
              /\ isna(DeclaredPolls[i].samplesize) =>
                    AllZero(EncodedPolls[i]) /\ EncodedPolls[i].samplesize = 0
        /\ \A i \in DOMAIN results_mult :
              /\ IntegerCounts(results_mult[i])
              /\ CountsSum(results_mult[i]) = results_mult[i].samplesize
              /\ Year(results_mult[i].dateelection) \notin DOMAIN raw_json =>
                    AllZero(results_mult[i]) /\ results_mult[i].samplesize = 0
        /\ \A i \in DOMAIN results_oos :
              CountsSum(results_oos[i]) = results_oos[i].samplesize

\* a poll whose rounded counts do not add up to the declared sample size, next
\* to the empty result row of the last election
C3_Witness ==
    /\ pc = "ready"
    /\ \E i \in DOMAIN EncodedPolls :
          /\ ~isna(DeclaredPolls[i].samplesize)
          /\ Val(DeclaredPolls[i].samplesize) = 3
          /\ EncodedPolls[i].samplesize = 4
    /\ \E i \in DOMAIN results_mult :
          results_mult[i].dateelection = LastElectionDate /\ results_mult[i].samplesize = 0

\* C4: for an election_date among the elections of the data, all of them polled
\* in the training table, the result rows fed to R are the results of the
\* elections in elections_observed, in the same order.
C4_ResultsMatchObservedElections ==
    (coords.built /\ built_on.given = "none" /\ Len(coords.elections) = NumElections) =>
        Column(results_oos, "dateelection") = coords.elections_observed

Block(dates, k, n) == SubSeq(dates, (k - 1) * n + 1, k * n)

\* C6: from a posterior whose countdown range is 0..N-1, a forecast that goes
\* through has N dates per election of the posterior, one day apart, the last one
\* the election's date.
C6_DatesPerElection ==
    (returned.call = "forecast_election" /\ ~returned.raised) =>
        LET N == Len(idata.countdown)
        IN  /\ idata.countdown = [i \in 1..N |-> i - 1]
            /\ Len(returned.new_dates) = N * Len(idata.elections)
            /\ \A k \in DOMAIN idata.elections :
                  LET block == Block(returned.new_dates, k, N)
                  IN  /\ Len(block) = N
                      /\ block[N] = idata.elections[k]
                      /\ \A i \in 1..(N - 1) : block[i + 1] = block[i] + 1

C6_Witness ==
    /\ returned.call = "forecast_election"
    /\ ~returned.raised
    /\ Len(idata.elections) = NumElections
    /\ Len(idata.countdown) = QuarterLen + 1
    /\ Len(returned.new_dates) = NumElections * (QuarterLen + 1)

ReferenceAt(poll) == {i \in DOMAIN poll : ReferenceCandidate \in DOMAIN poll[i].intentions}

Returns(i) ==
    /\ ~selected.raised
    /\ selected.frame[<<"hypothese">>] = premier_tour[i].hypothese
    /\ DOMAIN selected.frame =
          {<<"hypothese">>} \cup {<<"intentions", c>> : c \in DOMAIN premier_tour[i].intentions}
    /\ \A c \in DOMAIN premier_tour[i].intentions :
          selected.frame[<<"intentions", c>>] = premier_tour[i].intentions[c]

\* C7 as stated: the hypothesis with the reference candidate when there is one,
\* the first hypothesis of the poll otherwise.
C7_ElseFirstHypothesis ==
    (selected.call = "select_hypothesis" /\ Len(premier_tour) >= 2) =>
        IF ReferenceAt(premier_tour) # {}
        THEN \E i \in ReferenceAt(premier_tour) : Returns(i)
        ELSE Returns(1)

\* C7, amended: the first hypothesis with the reference candidate when there is
\* one, the last hypothesis of the poll otherwise.
C7_ElseLastHypothesis ==
    (selected.call = "select_hypothesis" /\ Len(premier_tour) >= 2) =>
        IF ReferenceAt(premier_tour) # {}
        THEN Returns(CHOOSE i \in ReferenceAt(premier_tour) :
                        \A j \in ReferenceAt(premier_tour) : i <= j)
        ELSE Returns(Len(premier_tour))

\* several hypotheses, none with the reference candidate, the last one returned
C7_Witness ==
    /\ selected.call = "select_hypothesis"
    /\ Len(premier_tour) = MaxHypotheses
    /\ ReferenceAt(premier_tour) = {}
    /\ ~selected.raised
    /\ selected.frame[<<"hypothese">>] = MaxHypotheses
    /\ DOMAIN premier_tour[1].intentions # DOMAIN premier_tour[MaxHypotheses].intentions

\* the poll rows _train_split is given
SplitInput == Keys(SelectSeq(harmonized, IsPoll))

\* C8: the test set is the polls of the last election dated later than the last
\* election date minus the test_cutoff given (minus 2 days when none is given),
\* the training set every other poll, both in the order of the input.
C8_TestSetIsWithinGivenCutoff ==
    pc = "ready" =>
        LET last == SplitInput[Len(SplitInput)][1]
            bound == last - (IF isna(test_cutoff) THEN DefaultCutoffDays ELSE Val(test_cutoff))
            InTest(k) == k[1] = last /\ k[2] > bound
            NotInTest(k) == ~InTest(k)
        IN  /\ Keys(polls_test) = SelectSeq(SplitInput, InTest)
            /\ Keys(polls_train) = SelectSeq(SplitInput, NotInTest)

\* C9: every build_model() without override leaves the coordinates of the first
\* one: pollsters sorted, elections in chronological order of first appearance,
\* countdown 0..max_countdown.
C9_RebuildSameCoords ==
    (coords.built /\ built_on.given = "none") =>
        /\ first_coords.built
        /\ coords = first_coords.COORDS
        /\ IsSorted([i \in DOMAIN coords.pollsters |-> NameRank(coords.pollsters[i])])
        /\ IsSorted(coords.elections)
        /\ coords.elections = unique(Column(polls_train, "dateelection"))
        /\ coords.countdown =
              [i \in 1..(SetMax(Range(Column(polls_train, "countdown"))) + 1) |-> i - 1]

\* a build_model() that follows an override build and a forecast
C9_Witness ==
    /\ coords.built
    /\ built_on.given = "none"
    /\ returned.call = "build_model"
    /\ first_coords.built
    /\ first_coords.then = {"override", "forecast"}
    /\ Len(coords.pollsters) = 2

\* the forecast frame has a date whose quarter the predictor table lacks
QuarterMissing ==
    \E k \in DOMAIN idata.elections, c \in Range(idata.countdown) :
        to_period_Q(idata.elections[k] - c) \notin DOMAIN unemployment_data

\* C10: the join raises, returns no frame and leaves the object as it was, exactly
\* when a forecast date falls in a quarter without predictor value; otherwise it
\* returns the whole frame, each row with the standardised value of its quarter.
C10_JoinAbortsOnMissing ==
    returned.call = "forecast_election" =>
        /\ returned.raised <=> QuarterMissing
        /\ returned.raised => "frame" \notin DOMAIN returned
        /\ ~returned.raised =>
              /\ Len(returned.frame) = Len(idata.countdown) * Len(idata.elections)
              /\ \A i \in DOMAIN returned.frame :
                    LET r == returned.frame[i]
                    IN  /\ ~isna(r.unemployment)
                        /\ r.quarter = to_period_Q(r.date)
                        /\ Val(r.unemployment).deviation =
                              Statistics(continuous_predictors).count
                                  * unemployment_data[r.quarter]
                              - Statistics(continuous_predictors).sum

\* an aborted forecast_election: the coordinates are still those of sample_all
C10_Witness ==
    /\ returned.call = "forecast_election"
    /\ returned.raised
    /\ QuarterMissing
    /\ \E k \in DOMAIN idata.elections, c \in Range(idata.countdown) :
          to_period_Q(idata.elections[k] - c) \in DOMAIN unemployment_data
    /\ built_on.given = "none"

\* the counts a result row is encoded to, from the expressed votes n
EncodedFrom(raw, n) ==
    [f \in Range(political_families) |->
        IF isna(raw.fam[f]) THEN 0 ELSE round(Val(raw.fam[f]) * n, 100)]

\* C11: with an official table lacking some election of the result rows,
\* construction goes through; the table returned has one row per result row, in
\* the same order; a row of an election without entry has no count and trial
\* count 0, every other row the rounded counts of its expressed votes / 100.
C11_MissingYearSkipped ==
    /\ pc # "failed"
    /\ pc = "ready" =>
          /\ Len(results_mult) = Len(results_raw)
          /\ \A i \in DOMAIN results_raw :
                LET raw == results_raw[i]
                    enc == results_mult[i]
                    year == Year(raw.dateelection)
                IN  /\ enc.dateelection = raw.dateelection
                    /\ enc.date = raw.date
                    /\ IF year \in DOMAIN raw_json
                       THEN /\ enc.fam = EncodedFrom(raw, raw_json[year] \div 100)
                            /\ enc.samplesize = CountsSum(enc)
                            /\ enc.samplesize > 0
                       ELSE AllZero(enc) /\ enc.samplesize = 0

\* the oldest and the last election have no entry, the one between them has
C11_Witness ==
    /\ pc = "ready"
    /\ raw_json = JsonRecent
    /\ \E i, j, k \in DOMAIN results_mult :
          /\ results_mult[i].dateelection = ElectionDateOf(1)
          /\ results_mult[i].samplesize = 0
          /\ results_mult[j].dateelection = ElectionDateOf(2)
          /\ results_mult[j].samplesize > 0
          /\ results_mult[k].dateelection = LastElectionDate
          /\ results_mult[k].samplesize = 0

\* the seven named shares of a loaded row, a missing one counting as 0
NamedSum(nb) == SumSeq([k \in DOMAIN NamedFamilies |-> ZeroIfNa(nb[NamedFamilies[k]])])

\* C12: every share of a harmonised row that is present, "other" included, lies
\* in 0..100; a table with a row whose named shares sum to more than 100 is
\* rejected by the constructor.
C12_SharesWithinRange ==
    /\ pc = "ready" =>
          \A i \in DOMAIN harmonized, f \in Range(political_families) :
             LET share == harmonized[i].fam[f]
             IN  ~isna(share) => (0 <= Val(share) /\ Val(share) <= 100)
    /\ (pc # "new" /\ \E r \in raw_polls : NamedSum(r.nb) > 100) => pc = "failed"

\* C13: a forecast_election call, whether it returns or raises, leaves
\* polls_train, polls_test, results_raw, results_mult, results_oos, the predictor
\* table and continuous_predictors (hence its mean and standard deviation) as they
\* were, and every value of the frame it returns is standardised with the
\* statistics continuous_predictors had before the call.
C13_ForecastLeavesTrainingFrames ==
    [][returned'.call = "forecast_election" =>
          /\ polls_train' = polls_train
          /\ polls_test' = polls_test
          /\ results_raw' = results_raw
          /\ results_mult' = results_mult
          /\ results_oos' = results_oos
          /\ unemployment_data' = unemployment_data
          /\ continuous_predictors' = continuous_predictors
          /\ Statistics(continuous_predictors') = Statistics(continuous_predictors)
          /\ ~returned'.raised =>
                \A i \in DOMAIN returned'.frame :
                   /\ ~isna(returned'.frame[i].unemployment)
                   /\ Val(returned'.frame[i].unemployment).stats
                         = Statistics(continuous_predictors)]_vars

\* a forecast returned for an object with held-out polls; its frame has values
\* above and below the mean of the observed ones
C13_Witness ==
    /\ returned.call = "forecast_election"
    /\ ~returned.raised
    /\ polls_test # <<>>
    /\ Statistics(continuous_predictors).count = Len(polls_train) + Len(results_mult)
    /\ \E i, j \in DOMAIN returned.frame :
          /\ Val(returned.frame[i].unemployment).deviation > 0
          /\ Val(returned.frame[j].unemployment).deviation < 0

\* what a run of forecast_election on the same object and posterior gives with
\* the draws sondage and samplesize
ForecastRun(sondage, samplesize) ==
    LET g == generate_oos_data(idata, sondage, samplesize)
        j == IF g.raised THEN g
             ELSE join_with_continuous_predictors(g.oos_data, unemployment_data,
                                                  continuous_predictors)
    IN  IF j.raised THEN j
        ELSE [raised |-> FALSE, frame |-> j.frame,
              built |-> build_coords(ForecastData(j.frame))]

\* C14: a forecast that went through has, for every other outcome of the two
\* random draws, the same dates, countdown and election indices and standardised
\* predictor values, and its model the same pollsters, elections and countdown
\* coordinates.
C14_DrawsDoNotInfluence ==
    (returned.call = "forecast_election" /\ ~returned.raised) =>
        LET n == Len(idata.countdown) * Len(idata.elections)
        IN  \A sondage \in Draws(unique_pollsters, n),
               samplesize \in Draws(Column(results_oos, "samplesize"), n) :
                LET other == ForecastRun(sondage, samplesize)
                IN  /\ ~other.raised
                    /\ Column(other.frame, "date") = Column(returned.frame, "date")
                    /\ Column(other.frame, "unemployment")
                          = Column(returned.frame, "unemployment")
                    /\ other.built.countdown_id = countdown_id
                    /\ other.built.election_id = election_id
                    /\ other.built.COORDS.pollsters = coords.pollsters
                    /\ other.built.COORDS.elections = coords.elections
                    /\ other.built.COORDS.countdown = coords.countdown

\* the harmonised rows, with their shares, the table of the last build was
\* encoded from: the training polls, or the held-out polls after them
SharesBuiltOn ==
    IF built_on.given = "none" THEN SubSeq(DeclaredPolls, 1, Len(polls_train))
    ELSE IF built_on.given = "override"
         THEN SubSeq(DeclaredPolls, Len(polls_train) + 1, Len(DeclaredPolls))
    ELSE <<>>

Positive(share) == ~isna(share) /\ Val(share) > 0

\* C15: in the arrays of the last build, a family with a positive share in a poll
\* row has additive value 0 and indicator 1 in that row, and a family with a
\* positive share in a result row has additive value 0; -10 and 0 go to
\* families whose share is zero or missing only.
C15_PenaltyOnlyWithoutCandidate ==
    coords.built =>
        /\ \A i \in DOMAIN SharesBuiltOn, f \in Range(political_families) :
              Positive(SharesBuiltOn[i].fam[f]) =>
                 /\ non_competing_parties.polls_additive[i][f] = 0
                 /\ non_competing_parties.polls_multiplicative[i][f] = 1
        /\ \A i \in DOMAIN results_raw, f \in Range(NamedFamilies) :
              Positive(results_raw[i].fam[f]) =>
                 non_competing_parties.results[i][f] = 0

\* C16: whatever the test_cutoff, when the election being forecast is the last
\* one of the data, the elections coordinate of a build on the training table is
\* every election of the data, the forecast one last, and elections_observed
\* is the elections of the rows of results_oos, one entry per row.
C16_ObservedElectionsHaveResults ==
    (coords.built /\ built_on.given = "none" /\ election_date = LastElectionDate) =>
        /\ coords.elections = unique(Column(harmonized, "dateelection"))
        /\ coords.elections[Len(coords.elections)] = election_date
        /\ coords.elections_observed = Column(results_oos, "dateelection")
        /\ Len(coords.elections_observed) = Len(results_oos)

\* sums of a tensor along one axis
AcrossFamilies(t, p, e) == SumSeq([i \in DOMAIN EffectFamilies |-> t[<<p, EffectFamilies[i], e>>]])
AcrossPollsters(t, f, e) == SumSeq([i \in DOMAIN EffectPollsters |-> t[<<EffectPollsters[i], f, e>>]])
AcrossElections(t, p, f) == SumSeq([i \in DOMAIN EffectElections |-> t[<<p, f, EffectElections[i]>>]])

ZeroAlongAllAxes(t) ==
    /\ \A p \in Range(EffectPollsters), e \in Range(EffectElections) : AcrossFamilies(t, p, e) = 0
    /\ \A f \in Range(EffectFamilies), e \in Range(EffectElections) : AcrossPollsters(t, f, e) = 0
    /\ \A p \in Range(EffectPollsters), f \in Range(EffectFamilies) : AcrossElections(t, p, f) = 0

\* C17 as stated: whatever the scales, house_election_effects sums to zero across
\* families for every (pollster, election), across pollsters for every (family,
\* election) and across elections for every (pollster, family).
C17_ScaledEffectZeroSumAllAxes ==
    house_election_effects.drawn => ZeroAlongAllAxes(house_election_effects.value)

\* C17, amended: the raw tensor sums to zero along the three axes; whatever the
\* scales, house_election_effects sums to zero across elections for every
\* (pollster, family); it sums to zero across the families of a pollster whose
\* scale is the same for every family, and across pollsters for a family whose
\* scale is the same for every pollster.
C17_ScaledEffectZeroSumElections ==
    house_election_effects.drawn =>
        LET t == house_election_effects.value
            sd == house_election_effects_sd.value
        IN  /\ ZeroAlongAllAxes(house_election_effects_raw.value)
            /\ \A q \in Range(EffectPollsters), f \in Range(EffectFamilies) :
                  AcrossElections(t, q, f) = 0
            /\ \A q \in Range(EffectPollsters), e \in Range(EffectElections) :
                  (\A f, g \in Range(EffectFamilies) : sd[<<q, f>>] = sd[<<q, g>>])
                      => AcrossFamilies(t, q, e) = 0
            /\ \A f \in Range(EffectFamilies), e \in Range(EffectElections) :
                  (\A q, r \in Range(EffectPollsters) : sd[<<q, f>>] = sd[<<r, f>>])
                      => AcrossPollsters(t, f, e) = 0

\* scales that differ between the families of one pollster, and an effect that
\* does not sum to zero across them
C17_Witness ==
    /\ house_election_effects.drawn
    /\ \E q \in Range(EffectPollsters), e \in Range(EffectElections) :
          /\ AcrossFamilies(house_election_effects.value, q, e) # 0
          /\ AcrossFamilies(house_election_effects_raw.value, q, e) = 0
          /\ \A f \in Range(EffectFamilies) :
                AcrossElections(house_election_effects.value, q, f) = 0
    /\ \E c \in EffectCells : house_election_effects.value[c] > MaxEffect

Abs(x) == IF x < 0 THEN 0 - x ELSE x

\* the eight shares are present, none negative, and sum to 100; the sample size
\* is a non-negative integer
WellFormed(r) ==
    /\ \A f \in Range(political_families) : ~isna(r.fam[f]) /\ Val(r.fam[f]) >= 0
    /\ SumSeq([k \in DOMAIN political_families |-> Val(r.fam[political_families[k]])]) = 100
    /\ ~isna(r.samplesize)
    /\ Val(r.samplesize) \in Nat

\* C19: for such a row, each count is an integer nearest to share/100 * samplesize,
\* the sum of the counts, which is the trial count returned, is within 4 of the
\* declared sample size, and equals it when every product is an integer.
C19_TrialsNearDeclared ==
    pc = "ready" =>
        \A i \in DOMAIN DeclaredPolls :
            WellFormed(DeclaredPolls[i]) =>
                LET n == Val(DeclaredPolls[i].samplesize)
                    share(f) == Val(DeclaredPolls[i].fam[f])
                    enc == EncodedPolls[i]
                IN  /\ \A f \in Range(political_families) :
                          /\ enc.fam[f] \in Nat
                          /\ 2 * Abs(100 * enc.fam[f] - share(f) * n) <= 100
                    /\ enc.samplesize = CountsSum(enc)
                    /\ Abs(enc.samplesize - n) <= 4
                    /\ (\A f \in Range(political_families) : (share(f) * n) % 100 = 0)
                          => enc.samplesize = n

\* seven families at 1% of 50 respondents: every product ends in one half and the
\* trial count is 4 below the declared sample size
C19_Witness ==
    /\ pc = "ready"
    /\ \E i \in DOMAIN DeclaredPolls :
          /\ WellFormed(DeclaredPolls[i])
          /\ DeclaredPolls[i].samplesize = Num(MaxSample)
          /\ DeclaredPolls[i].fam["other"] = Num(93)
          /\ EncodedPolls[i].samplesize = MaxSample - 4

\* C20: in the frame of a forecast that went through, every row's countdown is
\* the number of days from its date to its dateelection and lies in the countdown
\* range of the posterior, its dateelection is the election its date was
\* generated for, and every (election, countdown) pair occurs in exactly one row.
C20_ForecastRowsConsistent ==
    (returned.call = "forecast_election" /\ ~returned.raised) =>
        LET frame == returned.frame
            N == Len(idata.countdown)
        IN  /\ \A i \in DOMAIN frame :
                  /\ frame[i].date = returned.new_dates[i]
                  /\ frame[i].countdown = frame[i].dateelection - frame[i].date
                  /\ frame[i].countdown \in Range(idata.countdown)
                  /\ frame[i].dateelection = idata.elections[((i - 1) \div N) + 1]
            /\ \A e \in Range(idata.elections), c \in Range(idata.countdown) :
                  Cardinality({i \in DOMAIN frame :
                                  frame[i].dateelection = e /\ frame[i].countdown = c}) = 1

\* a frame over several elections whose first row is the first day of the year
\* of the first election and whose last row is the day of the last election
C20_Witness ==
    /\ returned.call = "forecast_election"
    /\ ~returned.raised
    /\ Len(idata.elections) > 1
    /\ LET frame == returned.frame
       IN  /\ frame[1].countdown = QuarterLen
           /\ frame[1].date = YearStart(idata.elections[1])
           /\ frame[Len(frame)].countdown = 0
           /\ frame[Len(frame)].dateelection = LastElectionDate

====
